---- MODULE Spec2Model ----
(***************************************************************************)
(* A model of rfc2texi.py: the config reader (parse_specs_conf), the       *)
(* fetcher (fetch_xml), the converter (convert_file) with its identifier   *)
(* extraction, the index generator (generate_dir_file) and the             *)
(* orchestrator (main).                                                    *)
(*                                                                         *)
(* A Python str is a sequence of one-character strings; a literal of the   *)
(* source that is only ever copied (a URL template, a header line of the   *)
(* dir file) is kept as one element.                                       *)
(*                                                                         *)
(* xml2rfc, urlretrieve and makeinfo are the environment: each call ends   *)
(* in one of the outcomes listed with it.  `log` keeps, in order, the      *)
(* calls made to them, the returns of convert_file and the writes of main. *)
(* Of the printed text only the config warnings and the count of compiler  *)
(* diagnostics are kept; local_info_files, which only xml2rfc reads, is    *)
(* left out.                                                               *)
(***************************************************************************)
EXTENDS Integers, Sequences, FiniteSets, TLC

VARIABLES
    pc,         \* position of the running function
    confFile,   \* the lines of specs.conf, each ending in "\n"
    lineNo,     \* parse_specs_conf: index of the next line of the for loop
    specs,      \* parse_specs_conf: the list `specs`
    warnings,   \* parse_specs_conf: the lines printed as "Warning: skipping ..."
    fs,         \* the files and directories that exist, as paths
    log,        \* what the run did outside its own memory, in order
    argv,       \* sys.argv[1:]
    files,      \* main: the list `files`
    entries,    \* main: the list `entries`; generate_dir_file: its argument
    idx,        \* main: index of the next element of the running for loop
    exitCode,   \* main: -1 while running, else the process's exit status
    xmlrfc,     \* convert_file: the root of the prepped tree
    filepath,   \* convert_file: its argument
    doc_id,     \* convert_file: the local `doc_id`
    dirFile     \* generate_dir_file: the text written to `dir`

vars == <<pc, confFile, lineNo, specs, warnings, fs, log, argv, files,
          entries, idx, exitCode, xmlrfc, filepath, doc_id, dirFile>>

confVars == <<confFile, lineNo, specs, warnings>>
idVars   == <<xmlrfc, filepath, doc_id>>
mainVars == <<argv, files, entries, idx, exitCode>>

----------------------------------------------------------------------------
(* Bounds of the model *)

MaxLines == 2     \* lines of a specs.conf
MaxSeries == 2    \* seriesInfo elements in a front matter
MaxEntries == 3   \* tuples handed to generate_dir_file
MaxCalls == 4     \* calls of fetch_xml in a row
MaxArgs == 2      \* command-line arguments
MaxWarn == 6      \* lines of compiler diagnostics

----------------------------------------------------------------------------
(* str methods *)

IsSpace(c) == c \in {" ", "\t", "\n"}

RECURSIVE LStrip(_)
LStrip(s) ==
    IF s = <<>> THEN s
    ELSE IF IsSpace(Head(s)) THEN LStrip(Tail(s)) ELSE s

RECURSIVE RStrip(_)
RStrip(s) ==
    IF s = <<>> THEN s
    ELSE IF IsSpace(s[Len(s)]) THEN RStrip(SubSeq(s, 1, Len(s) - 1)) ELSE s

\* str.strip()
Strip(s) == RStrip(LStrip(s))

\* c in s
Contains(s, c) == \E i \in 1..Len(s) : s[i] = c

\* s.index(c), counted from 1
Index(s, c) == CHOOSE i \in 1..Len(s) : s[i] = c /\ \A j \in 1..(i - 1) : s[j] # c

\* s.startswith(p)
StartsWith(s, p) == Len(s) >= Len(p) /\ SubSeq(s, 1, Len(p)) = p

\* length of the first whitespace-free run of a string that starts with one
TokenLen(t) ==
    IF \E i \in 1..Len(t) : IsSpace(t[i])
    THEN (CHOOSE i \in 1..Len(t) : IsSpace(t[i]) /\ \A j \in 1..(i - 1) : ~IsSpace(t[j])) - 1
    ELSE Len(t)

\* str.split()
RECURSIVE Split(_)
Split(s) ==
    LET t == LStrip(s) IN
    IF t = <<>> THEN <<>>
    ELSE LET n == TokenLen(t) IN <<SubSeq(t, 1, n)>> \o Split(SubSeq(t, n + 1, Len(t)))

\* sep.join(xs)
RECURSIVE Join(_, _)
Join(sep, xs) ==
    IF xs = <<>> THEN <<>>
    ELSE IF Len(xs) = 1 THEN xs[1]
    ELSE xs[1] \o sep \o Join(sep, Tail(xs))

\* s.replace(old, "") for a non-empty old: every occurrence, left to right
RECURSIVE Remove(_, _)
Remove(s, old) ==
    IF s = <<>> THEN s
    ELSE IF StartsWith(s, old) THEN Remove(SubSeq(s, Len(old) + 1, Len(s)), old)
    ELSE <<Head(s)>> \o Remove(Tail(s), old)

\* ord(c) for the characters the model uses
Ord(c) ==
    CASE c = "\t" -> 9  [] c = "\n" -> 10 [] c = " " -> 32 [] c = "#" -> 35
      [] c = "-" -> 45  [] c = "." -> 46  [] c = "/" -> 47
      [] c = "0" -> 48  [] c = "1" -> 49  [] c = "2" -> 50  [] c = "3" -> 51
      [] c = "4" -> 52  [] c = "5" -> 53  [] c = "6" -> 54  [] c = "7" -> 55
      [] c = "8" -> 56  [] c = "9" -> 57  [] c = ":" -> 58
      [] c = "A" -> 65  [] c = "B" -> 66  [] c = "C" -> 67  [] c = "D" -> 68
      [] c = "F" -> 70  [] c = "I" -> 73  [] c = "O" -> 79  [] c = "R" -> 82
      [] c = "T" -> 84
      [] c = "a" -> 97  [] c = "b" -> 98  [] c = "c" -> 99  [] c = "d" -> 100
      [] c = "f" -> 102 [] c = "g" -> 103 [] c = "i" -> 105 [] c = "l" -> 108
      [] c = "m" -> 109 [] c = "n" -> 110 [] c = "o" -> 111 [] c = "r" -> 114
      [] c = "s" -> 115 [] c = "t" -> 116 [] c = "u" -> 117 [] c = "x" -> 120

\* a < b on str: by code point, a proper prefix first
RECURSIVE StrLess(_, _)
StrLess(a, b) ==
    IF b = <<>> THEN FALSE
    ELSE IF a = <<>> THEN TRUE
    ELSE IF Head(a) = Head(b) THEN StrLess(Tail(a), Tail(b))
    ELSE Ord(Head(a)) < Ord(Head(b))

IsDigit(c) == c \in {"0", "1", "2", "3", "4", "5", "6", "7", "8", "9"}

----------------------------------------------------------------------------
(* parse_specs_conf *)

\* RFC_URL with the draft archive's template
RFC_URL_DraftTemplate(number) == <<"https://www.ietf.org/archive/id/">> \o number \o <<".", "x", "m", "l">>

RFC_URL(number) == <<"https://www.rfc-editor.org/rfc/rfc">> \o number \o <<".", "x", "m", "l">>
DRAFT_URL(name) == <<"https://www.ietf.org/archive/id/">> \o name \o <<".", "x", "m", "l">>

kwRfc   == <<"r", "f", "c">>
kwDraft == <<"d", "r", "a", "f", "t">>
kwUrl   == <<"u", "r", "l">>

\* line 63: line[:line.index('#')].strip()
StripInlineComment(line) ==
    IF Contains(line, "#") THEN Strip(SubSeq(line, 1, Index(line, "#") - 1)) ELSE line

\* ParseDirective without the final else branch's warning
ParseDirective_Silent(stripped) ==
    LET line  == StripInlineComment(stripped)
        parts == Split(line)
        kind  == parts[1]
    IN  IF kind = kwRfc /\ Len(parts) >= 2
        THEN [specs |-> << <<RFC_URL(parts[2]), kwRfc \o parts[2]>> >>, warn |-> <<>>, raised |-> FALSE]
        ELSE IF kind = kwDraft /\ Len(parts) >= 2
        THEN [specs |-> << <<DRAFT_URL(parts[2]), parts[2]>> >>, warn |-> <<>>, raised |-> FALSE]
        ELSE IF kind = kwUrl /\ Len(parts) >= 3
        THEN [specs |-> << <<parts[2], parts[3]>> >>, warn |-> <<>>, raised |-> FALSE]
        ELSE [specs |-> <<>>, warn |-> <<>>, raised |-> FALSE]

\* lines 64-79 on a stripped, non-empty, non-comment line: what is appended to
\* `specs`, what is printed as a warning, and whether parts[0] raised IndexError
ParseDirective(stripped) ==
    LET line  == StripInlineComment(stripped)
        parts == Split(line)
        kind  == parts[1]
    IN  IF parts = <<>>
        THEN [specs |-> <<>>, warn |-> <<>>, raised |-> TRUE]
        ELSE IF kind = kwRfc /\ Len(parts) >= 2
        THEN [specs |-> << <<RFC_URL(parts[2]), kwRfc \o parts[2]>> >>, warn |-> <<>>, raised |-> FALSE]
        ELSE IF kind = kwDraft /\ Len(parts) >= 2
        THEN [specs |-> << <<DRAFT_URL(parts[2]), parts[2]>> >>, warn |-> <<>>, raised |-> FALSE]
        ELSE IF kind = kwUrl /\ Len(parts) >= 3
        THEN [specs |-> << <<parts[2], parts[3]>> >>, warn |-> <<>>, raised |-> FALSE]
        ELSE [specs |-> <<>>, warn |-> <<line>>, raised |-> FALSE]

\* lines 58-79: the body of the for loop on one line of the file
ParseLine(raw) ==
    LET line == Strip(raw) IN
    IF line = <<>> \/ StartsWith(line, <<"#">>)
    THEN [specs |-> <<>>, warn |-> <<>>, raised |-> FALSE]
    ELSE ParseDirective(line)

\* the whole function, for callers
RECURSIVE parse_specs_conf(_)
parse_specs_conf(lines) ==
    IF lines = <<>> THEN <<>>
    ELSE ParseLine(Head(lines)).specs \o parse_specs_conf(Tail(lines))

----------------------------------------------------------------------------
(* The config lines the model reads.  A line is written down by its layout:  *)
(* leading blanks, words, the blanks between words, trailing blanks, and a   *)
(* comment that is empty or starts with "#".                                 *)

Layout(lead, words, sep, trail, comment) ==
    [lead |-> lead, words |-> words, sep |-> sep, trail |-> trail, comment |-> comment]

Render(d) == d.lead \o Join(d.sep, d.words) \o d.trail \o d.comment \o <<"\n">>

tNum   == <<"9", "1">>
tNum2  == <<"8">>
tDraft == <<"d", "-", "1">>
tU     == <<"u", "/", "x">>
tUFrag == <<"u", "/", "x", "#", "f">>
tName  == <<"n">>
tBogus == <<"b", "o", "g", "u", "s">>
tFoo   == <<"f", "o", "o">>
sp     == <<" ">>
tab    == <<"\t">>
cmt    == <<"#", "c">>
none   == <<>>

\* layouts whose words hold no "#": every line of the model has exactly one
Shapes == {
    Layout(none, <<>>, sp, none, none),
    Layout(sp, <<>>, sp, tab, none),
    Layout(none, <<>>, sp, none, cmt),
    Layout(sp, <<>>, sp, none, <<"#", " ", "r", "f", "c", " ", "9">>),
    Layout(none, <<kwRfc, tNum>>, sp, none, none),
    Layout(tab, <<kwRfc, tNum2>>, sp \o sp, sp, cmt),
    Layout(none, <<kwRfc, tNum, tNum2>>, sp, none, none),
    Layout(none, <<kwRfc>>, sp, none, none),
    Layout(none, <<kwRfc>>, sp, none, <<"#", "9">>),
    Layout(none, <<kwDraft, tDraft>>, sp, none, none),
    Layout(sp, <<kwDraft, tDraft>>, tab, none, cmt),
    Layout(none, <<kwDraft>>, sp, sp, none),
    Layout(none, <<kwUrl, tU, tName>>, sp, none, none),
    Layout(none, <<kwUrl, tU, tName>>, sp, sp, cmt),
    Layout(none, <<kwUrl, tU>>, sp, none, none),
    Layout(none, <<kwUrl>>, sp, none, none),
    Layout(none, <<tBogus, tFoo>>, sp, none, none),
    Layout(none, <<tNum>>, sp, none, none),
    \* the two lines of FragmentShapes, read with "#" opening a comment
    Layout(none, <<kwUrl, tU>>, sp, none, <<"#", "f", " ", "n">>),
    Layout(none, <<kwUrl, tU>>, sp, none, <<"#", "f", " ", "n", " ", "#", "c">>)
}

\* `url U N` lines whose URL holds a fragment
FragmentShapes == {
    Layout(none, <<kwUrl, tUFrag, tName>>, sp, none, none),
    Layout(none, <<kwUrl, tUFrag, tName>>, sp, sp, cmt)
}

ConfLines == { Render(d) : d \in Shapes \cup FragmentShapes }

ConfFiles == UNION { [1..n -> ConfLines] : n \in 0..MaxLines }

----------------------------------------------------------------------------
(* States outside the function a specification runs *)

NoTree == [number |-> <<>>, docName |-> <<>>, seriesInfo |-> <<>>, title |-> <<>>]

IdleConf == confFile = <<>> /\ lineNo = 1 /\ specs = <<>> /\ warnings = <<>>
IdleId   == xmlrfc = NoTree /\ filepath = <<>> /\ doc_id = <<>>
IdleMain == argv = <<>> /\ files = <<>> /\ entries = <<>> /\ idx = 1 /\ exitCode = -1
IdleDisk == fs = {} /\ log = <<>> /\ dirFile = <<>>

----------------------------------------------------------------------------
(* parse_specs_conf, line by line *)

InitConf ==
    /\ pc = "parse"
    /\ confFile \in ConfFiles
    /\ lineNo = 1
    /\ specs = <<>>
    /\ warnings = <<>>
    /\ IdleId /\ IdleMain /\ IdleDisk

\* one pass of `for line in f`
ParseStep ==
    /\ pc = "parse"
    /\ lineNo <= Len(confFile)
    /\ LET r == ParseLine(confFile[lineNo]) IN
       /\ specs' = specs \o r.specs
       /\ warnings' = warnings \o r.warn
       /\ pc' = IF r.raised THEN "raised" ELSE "parse"
    /\ lineNo' = lineNo + 1
    /\ UNCHANGED <<confFile, fs, log, dirFile, idVars, mainVars>>

\* `return specs`
ParseReturn ==
    /\ pc = "parse"
    /\ lineNo > Len(confFile)
    /\ pc' = "parsed"
    /\ UNCHANGED <<confVars, fs, log, dirFile, idVars, mainVars>>

NextConf == ParseStep \/ ParseReturn

SpecConf == InitConf /\ [][NextConf]_vars

----------------------------------------------------------------------------
(* Claims about parse_specs_conf, under SpecConf *)

\* the lines the for loop has been through
Done == SubSeq(confFile, 1, lineNo - 1)

\* a line's layout with "#" opening a comment
ReadingOf(line) == CHOOSE d \in Shapes : Render(d) = line

\* one of the three shapes, judged on the words before any comment
WellFormed(d) ==
    /\ d.words # <<>>
    /\ \/ d.words[1] \in {kwRfc, kwDraft} /\ Len(d.words) >= 2
       \/ d.words[1] = kwUrl /\ Len(d.words) >= 3

\* a non-empty, non-comment line that is none of the three shapes
Malformed(d) == d.words # <<>> /\ ~WellFormed(d)

\* the entry section 4.1 gives a well-formed line
ExpectedEntry(d) ==
    IF d.words[1] = kwRfc
    THEN << <<"https://www.rfc-editor.org/rfc/rfc">> \o d.words[2] \o <<".", "x", "m", "l">>,
            <<"r", "f", "c">> \o d.words[2] >>
    ELSE IF d.words[1] = kwDraft
    THEN << <<"https://www.ietf.org/archive/id/">> \o d.words[2] \o <<".", "x", "m", "l">>,
            d.words[2] >>
    ELSE << d.words[2], d.words[3] >>

RECURSIVE ExpectedSpecs(_)
ExpectedSpecs(lines) ==
    IF lines = <<>> THEN <<>>
    ELSE LET d == ReadingOf(Head(lines)) IN
         (IF WellFormed(d) THEN <<ExpectedEntry(d)>> ELSE <<>>) \o ExpectedSpecs(Tail(lines))

IsWellFormedLine(line) == WellFormed(ReadingOf(line))

\* C3: every line `url U N`, with or without an inline comment, yields exactly
\* one entry (U, N), with U and N unchanged, also when U holds a "#": the
\* entries equal to (U, N) are as many as the lines read that spell `url U N`.
C3_UrlVerbatim ==
    \A d \in Shapes \cup FragmentShapes :
        (d.words # <<>> /\ d.words[1] = kwUrl /\ Len(d.words) = 3) =>
            Cardinality({k \in 1..Len(specs) : specs[k] = <<d.words[2], d.words[3]>>})
            = Cardinality({i \in 1..Len(Done) :
                  \E e \in Shapes \cup FragmentShapes :
                      Render(e) = Done[i] /\ e.words = d.words})

\* C8: blank lines, comment lines and malformed lines give no entry; each
\* malformed line gives exactly one warning; no line raises; and the entries
\* are those of the same file with the excluded lines deleted.
C8_ExcludedLines ==
    /\ pc # "raised"
    /\ \A i \in 1..Len(confFile) : \E d \in Shapes : Render(d) = confFile[i]
    /\ Len(warnings) = Cardinality({i \in 1..Len(Done) : Malformed(ReadingOf(Done[i]))})
    /\ Len(specs) = Cardinality({i \in 1..Len(Done) : WellFormed(ReadingOf(Done[i]))})
    /\ specs = parse_specs_conf(SelectSeq(Done, IsWellFormedLine))

\* `bogus foo` followed by a valid line: one warning, one entry
C8_Witness ==
    /\ pc = "parsed"
    /\ Len(confFile) = 2
    /\ ReadingOf(confFile[1]).words = <<tBogus, tFoo>>
    /\ ReadingOf(confFile[2]).words = <<kwDraft, tDraft>>
    /\ Len(warnings) = 1
    /\ Len(specs) = 1

\* C9: `rfc N` yields (RFC template with N, "rfc" + N), `draft X` yields (draft
\* template with X, X); the entries are one per well-formed line, in the order
\* of the lines.
C9_EntriesInOrder == specs = ExpectedSpecs(Done)

\* a draft line then an rfc line, both parsed
C9_Witness ==
    /\ pc = "parsed"
    /\ Len(confFile) = 2
    /\ ReadingOf(confFile[1]).words = <<kwDraft, tDraft>>
    /\ ReadingOf(confFile[2]).words = <<kwRfc, tNum>>
    /\ specs = << <<DRAFT_URL(tDraft), tDraft>>, <<RFC_URL(tNum), kwRfc \o tNum>> >>

----------------------------------------------------------------------------
(* fetch_xml *)

Path(dir, file) == [dir |-> dir, file |-> file]

dotXml  == <<".", "x", "m", "l">>
dotInfo == <<".", "i", "n", "f", "o">>
dotTexi == <<".", "t", "e", "x", "i">>

\* os.path.join(xml_dir, f"{name}.xml")
XmlPath(name) == Path("xml", name \o dotXml)

\* what urllib.request.urlretrieve can do: write the whole file; raise before
\* the file is opened; raise after part of it was written
TransferOutcomes == {"ok", "error", "partial"}

LeavesFile(outcome) == outcome \in {"ok", "partial"}

\* fetch_xml without the os.path.exists test
fetch_xml_NoCache(url, output_path, outcome) ==
    [fs  |-> IF LeavesFile(outcome) THEN fs \cup {output_path} ELSE fs,
     log |-> Append(log, [op |-> "transfer", url |-> url, path |-> output_path,
                          outcome |-> outcome]),
     raised |-> outcome # "ok"]

\* fetch_xml(url, output_path) when urlretrieve, if called, ends in `outcome`:
\* the files and the log after the call, and whether the call raised
fetch_xml(url, output_path, outcome) ==
    IF output_path \in fs
    THEN [fs |-> fs,
          log |-> Append(log, [op |-> "cached", url |-> url, path |-> output_path,
                               outcome |-> "none"]),
          raised |-> FALSE]
    ELSE [fs  |-> IF LeavesFile(outcome) THEN fs \cup {output_path} ELSE fs,
          log |-> Append(log, [op |-> "transfer", url |-> url, path |-> output_path,
                               outcome |-> outcome]),
          raised |-> outcome # "ok"]

\* the (url, name) pairs the fetch specification calls fetch_xml with
FetchTargets == { <<RFC_URL(tNum), kwRfc \o tNum>>, <<DRAFT_URL(tDraft), tDraft>> }

InitFetch ==
    /\ pc = "fetch_xml"
    /\ fs \in SUBSET { XmlPath(t[2]) : t \in FetchTargets }
    /\ log = <<>>
    /\ dirFile = <<>>
    /\ IdleConf /\ IdleId /\ IdleMain

\* a call that finds the destination on disk
FetchCached ==
    /\ pc = "fetch_xml"
    /\ Len(log) < MaxCalls
    /\ \E t \in FetchTargets :
         /\ XmlPath(t[2]) \in fs
         /\ LET r == fetch_xml(t[1], XmlPath(t[2]), "ok") IN
            fs' = r.fs /\ log' = r.log
    /\ UNCHANGED <<pc, dirFile, confVars, idVars, mainVars>>

\* a call that does not
FetchTransfer ==
    /\ pc = "fetch_xml"
    /\ Len(log) < MaxCalls
    /\ \E t \in FetchTargets, outcome \in TransferOutcomes :
         /\ XmlPath(t[2]) \notin fs
         /\ LET r == fetch_xml(t[1], XmlPath(t[2]), outcome) IN
            fs' = r.fs /\ log' = r.log
    /\ UNCHANGED <<pc, dirFile, confVars, idVars, mainVars>>

NextFetch == FetchCached \/ FetchTransfer

SpecFetch == InitFetch /\ [][NextFetch]_vars

----------------------------------------------------------------------------
(* Claims about fetch_xml, under SpecFetch *)

IsTransfer(e) == e.op = "transfer"

\* C4 as stated: any two consecutive calls with the same destination perform
\* exactly one network transfer between them.
C4_TwoCallsOneTransfer ==
    \A k \in 1..(Len(log) - 1) :
        log[k].path = log[k + 1].path =>
            Cardinality({j \in {k, k + 1} : IsTransfer(log[j])}) = 1

\* the call just made, in a step that made one
LastCall == log'[Len(log')]

\* C4, amended: a transfer is attempted only by a call made while the
\* destination does not exist; a call made while it exists is the cached path,
\* without transfer or write; a file once on disk stays; so of two consecutive
\* calls with the same destination the second transfers only if the first was
\* a transfer that left no file, and the two perform exactly one transfer when
\* the destination was absent before the first and the first left the file.
C4_FetchIdempotent ==
    /\ [][ Len(log') = Len(log) + 1 =>
             /\ IsTransfer(LastCall) <=> LastCall.path \notin fs
             /\ ~IsTransfer(LastCall) => fs' = fs
             /\ fs \subseteq fs'
             /\ (IsTransfer(LastCall) /\ LeavesFile(LastCall.outcome)) => LastCall.path \in fs' ]_vars
    /\ [](\A k \in 1..(Len(log) - 1) :
            log[k].path = log[k + 1].path =>
              /\ IsTransfer(log[k + 1]) <=> (IsTransfer(log[k]) /\ ~LeavesFile(log[k].outcome))
              /\ (IsTransfer(log[k]) /\ LeavesFile(log[k].outcome)) =>
                     Cardinality({j \in {k, k + 1} : IsTransfer(log[j])}) = 1)

\* two calls with one destination, absent at first: a transfer, then the
\* cached path
C4_Witness ==
    /\ Len(log) = 2
    /\ log[1].path = log[2].path
    /\ IsTransfer(log[1]) /\ log[1].outcome = "ok"
    /\ log[2].op = "cached"
    /\ log[1].path \in fs

----------------------------------------------------------------------------
(* convert_file: the canonical identifier, lines 89 and 124-153 *)

\* os.path.splitext(file)[0]: cut at the last dot, unless only dots precede it
SplitExtRoot(file) ==
    LET dots == {i \in 1..Len(file) : file[i] = "."}
        last == CHOOSE i \in dots : \A j \in dots : j <= i
    IN  IF dots = {} THEN file
        ELSE IF \A j \in 1..(last - 1) : file[j] = "." THEN file
        ELSE SubSeq(file, 1, last - 1)

\* os.path.splitext(os.path.basename(filepath))[0]
Basename(path) == SplitExtRoot(path.file)

\* re.match(r'^rfc(\d+)$', basename): "$" also matches before a final newline
RfcBasenameMatch(basename) ==
    LET body == IF basename # <<>> /\ basename[Len(basename)] = "\n"
                THEN SubSeq(basename, 1, Len(basename) - 1) ELSE basename
    IN  /\ StartsWith(body, kwRfc)
        /\ Len(body) > 3
        /\ \A i \in 4..Len(body) : IsDigit(body[i])

\* .group(1) of that match
RfcBasenameDigits(basename) ==
    LET body == IF basename[Len(basename)] = "\n"
                THEN SubSeq(basename, 1, Len(basename) - 1) ELSE basename
    IN  SubSeq(body, 4, Len(body))

strRFC == <<"R", "F", "C", " ">>

\* lines 139-144: the first seriesInfo named "RFC", or 0
FirstRfcSeries(series) ==
    IF \E i \in 1..Len(series) : series[i].name = <<"R", "F", "C">>
    THEN CHOOSE i \in 1..Len(series) :
            /\ series[i].name = <<"R", "F", "C">>
            /\ \A j \in 1..(i - 1) : series[j].name # <<"R", "F", "C">>
    ELSE 0

\* ExtractDocId with the filename pattern applied whether or not an RFC number
\* was found
ExtractDocId_AlwaysBasename(root, basename) ==
    LET byAttr == IF root.number # <<>> THEN strRFC \o root.number
                  ELSE IF root.docName # <<>> THEN root.docName ELSE <<>>
        k      == FirstRfcSeries(root.seriesInfo)
        found  == root.number = <<>> /\ k > 0
        bySer  == IF found THEN strRFC \o root.seriesInfo[k].value ELSE byAttr
    IN  IF RfcBasenameMatch(basename)
        THEN strRFC \o RfcBasenameDigits(basename)
        ELSE bySer

\* lines 131-153: doc_id from the root of the prepped tree and the basename
ExtractDocId(root, basename) ==
    LET rfc_num0 == root.number
        doc_name == root.docName
        byAttr == IF rfc_num0 # <<>> THEN strRFC \o rfc_num0
                  ELSE IF doc_name # <<>> THEN doc_name ELSE <<>>
        k      == FirstRfcSeries(root.seriesInfo)
        found  == rfc_num0 = <<>> /\ k > 0
        rfc_num == IF found THEN root.seriesInfo[k].value ELSE rfc_num0
        bySer  == IF found THEN strRFC \o rfc_num ELSE byAttr
    IN  IF RfcBasenameMatch(basename) /\ rfc_num = <<>>
        THEN strRFC \o RfcBasenameDigits(basename)
        ELSE bySer

\* the trees and file names the identifier specification runs on
SeriesPool == {
    [name |-> <<"R", "F", "C">>, value |-> <<"8">>],
    [name |-> <<"R", "F", "C">>, value |-> <<"7">>],
    [name |-> <<"R", "F", "C">>, value |-> <<>>],
    [name |-> <<"D", "O", "I">>, value |-> <<"1", "0">>]
}

SeriesLists == UNION { [1..n -> SeriesPool] : n \in 0..MaxSeries }

Trees == [number : {<<>>, tNum}, docName : {<<>>, tDraft},
          seriesInfo : SeriesLists, title : {<<"T">>}]

IdFiles == {
    Path("script", kwRfc \o <<"6", "7">> \o dotXml),
    Path("script", tDraft \o dotXml),
    Path("script", kwRfc \o dotXml),
    Path("script", kwRfc \o <<"6", "a">> \o dotXml),
    Path("script", <<"x">> \o kwRfc \o <<"6">> \o dotXml),
    Path("script", kwRfc \o <<"6">> \o dotXml \o dotXml)
}

InitId ==
    /\ pc = "extract"
    /\ xmlrfc \in Trees
    /\ filepath \in IdFiles
    /\ doc_id = <<>>
    /\ IdleConf /\ IdleMain /\ IdleDisk

\* lines 131-153 of one call
ExtractId ==
    /\ pc = "extract"
    /\ doc_id' = ExtractDocId(xmlrfc, Basename(filepath))
    /\ pc' = "extracted"
    /\ UNCHANGED <<xmlrfc, filepath, fs, log, dirFile, confVars, mainVars>>

NextId == ExtractId

SpecId == InitId /\ [][NextId]_vars

----------------------------------------------------------------------------
(* Claims about the canonical identifier, under SpecId *)

HasRfcSeries == \E i \in 1..Len(xmlrfc.seriesInfo) : xmlrfc.seriesInfo[i].name = <<"R", "F", "C">>

\* the value of the first seriesInfo named "RFC"
RfcSeriesValue ==
    LET s == SelectSeq(xmlrfc.seriesInfo, LAMBDA e : e.name = <<"R", "F", "C">>)
    IN  s[1].value

NameIsRfcDigits == RfcBasenameMatch(Basename(filepath))
NameDigits == RfcBasenameDigits(Basename(filepath))

\* C1 as stated: number, else docName, else the first seriesInfo named "RFC",
\* else the file name's rfc<digits>, else empty; a later strategy never
\* overrides an earlier non-empty one.  (A seriesInfo named "RFC" whose value
\* is empty is read as finding no RFC number, so that the file name is tried
\* before it.)
C1_StrictPrecedence ==
    pc = "extracted" =>
        doc_id = IF xmlrfc.number # <<>> THEN strRFC \o xmlrfc.number
                 ELSE IF xmlrfc.docName # <<>> THEN xmlrfc.docName
                 ELSE IF HasRfcSeries /\ RfcSeriesValue # <<>> THEN strRFC \o RfcSeriesValue
                 ELSE IF NameIsRfcDigits THEN strRFC \o NameDigits
                 ELSE IF HasRfcSeries THEN strRFC
                 ELSE <<>>

\* C1, amended: an RFC number outranks the document name.  A non-empty root
\* number gives "RFC <number>"; else the first seriesInfo named "RFC", if its
\* value is not empty, gives "RFC <value>"; else a file name rfc<digits> gives
\* "RFC <digits>"; else the first seriesInfo named "RFC", its value empty,
\* gives "RFC "; else a non-empty docName gives that name; else the empty
\* string.
C1_RfcNumberFirst ==
    pc = "extracted" =>
        doc_id = IF xmlrfc.number # <<>> THEN strRFC \o xmlrfc.number
                 ELSE IF HasRfcSeries /\ RfcSeriesValue # <<>> THEN strRFC \o RfcSeriesValue
                 ELSE IF NameIsRfcDigits THEN strRFC \o NameDigits
                 ELSE IF HasRfcSeries THEN strRFC
                 ELSE IF xmlrfc.docName # <<>> THEN xmlrfc.docName
                 ELSE <<>>

\* rfc67.xml holding a draft: a docName, no number anywhere, identifier RFC 67
C1_Witness ==
    /\ pc = "extracted"
    /\ xmlrfc.number = <<>>
    /\ xmlrfc.docName = tDraft
    /\ ~HasRfcSeries
    /\ Basename(filepath) = kwRfc \o <<"6", "7">>
    /\ doc_id = strRFC \o <<"6", "7">>

----------------------------------------------------------------------------
(* generate_dir_file *)

\* the key of line 199: e[1]
DocIdOf(e) == e[2]

\* x put behind every element whose key is not greater than x's
RECURSIVE InsertByDocId(_, _)
InsertByDocId(sorted, x) ==
    IF sorted = <<>> THEN <<x>>
    ELSE IF StrLess(DocIdOf(x), DocIdOf(Head(sorted))) THEN <<x>> \o sorted
    ELSE <<Head(sorted)>> \o InsertByDocId(Tail(sorted), x)

\* SortByDocId left out: the entries in the order given
SortByDocId_Unsorted(es) == es

\* sorted(entries, key=lambda e: e[1]): a stable sort
RECURSIVE SortByDocId(_)
SortByDocId(es) ==
    IF es = <<>> THEN <<>>
    ELSE InsertByDocId(SortByDocId(SubSeq(es, 1, Len(es) - 1)), es[Len(es)])

\* lines 200-202: the menu line of one entry
MenuLine(e) ==
    LET name  == Remove(e[1], dotInfo)
        label == IF e[2] # <<>> THEN e[2] ELSE name
    IN  <<"*", " ">> \o label \o <<":", " ", "(">> \o name \o <<")", ".", " ", " ">>
        \o e[3] \o <<".">>

\* lines 188-197
DirHeader == <<
    <<"This is the file .../info/dir, which contains the">>,
    <<"topmost node of the Info hierarchy, called (dir)Top.">>,
    <<>>,
    <<"\\x1f">>,
    <<"File: dir,\tNode: Top\tThis is the top of the INFO tree">>,
    <<>>,
    <<"* Menu:">>,
    <<>>,
    <<"RFC and Internet-Draft Specifications">> >>

\* lines 188-207 for entries already in the order of the for loop
FormatDir(ordered) ==
    Join(<<"\n">>, DirHeader \o [i \in 1..Len(ordered) |-> MenuLine(ordered[i])] \o << <<>> >>)

\* the text generate_dir_file writes
generate_dir_file(es) == FormatDir(SortByDocId(es))

iRfc91 == kwRfc \o tNum \o dotInfo
iDraft == tDraft \o dotInfo
iX     == <<"x">> \o dotInfo
iRfc8  == kwRfc \o tNum2 \o dotInfo

\* the tuples the index specification draws from
EntryPool == {
    <<iRfc91, strRFC \o tNum, <<"T">> >>,
    <<iRfc8, strRFC \o tNum2, <<"T">> >>,
    <<iDraft, <<>>, <<"A">> >>,
    <<iX, <<>>, <<"B">> >>,
    <<iX, strRFC \o tNum, <<"B">> >>,
    <<iDraft, tDraft, <<"A">> >>
}

InitDir ==
    /\ pc = "generate_dir_file"
    /\ entries \in UNION { [1..n -> EntryPool] : n \in 0..MaxEntries }
    /\ dirFile = <<>>
    /\ argv = <<>> /\ files = <<>> /\ idx = 1 /\ exitCode = -1
    /\ fs = {} /\ log = <<>>
    /\ IdleConf /\ IdleId

\* one call of generate_dir_file(script_dir, entries)
GenerateDirFile ==
    /\ pc = "generate_dir_file"
    /\ dirFile' = generate_dir_file(entries)
    /\ fs' = fs \cup {Path("script", <<"dir">>)}
    /\ pc' = "written"
    /\ UNCHANGED <<log, confVars, idVars, mainVars>>

NextDir == GenerateDirFile

SpecDir == InitDir /\ [][NextDir]_vars

----------------------------------------------------------------------------
(* Claims about generate_dir_file, under SpecDir *)

\* the orderings of the tuples in `entries`
Reorderings == { p \in [1..Len(entries) -> 1..Len(entries)] :
                    \A i, j \in 1..Len(entries) : i # j => p[i] # p[j] }

Reordered(p) == [i \in 1..Len(entries) |-> entries[p[i]]]

NonDecreasing(es) ==
    \A i \in 1..(Len(es) - 1) : ~StrLess(DocIdOf(es[i + 1]), DocIdOf(es[i]))

\* p keeps tuples of equal identifier in the order `entries` has them
KeepsTies(p) ==
    \A i, j \in 1..Len(entries) :
        (i < j /\ DocIdOf(entries[p[i]]) = DocIdOf(entries[p[j]])) => p[i] < p[j]

\* the file holds the tuples in some order of non-decreasing identifier
MenuSorted ==
    \E p \in Reorderings : NonDecreasing(Reordered(p)) /\ dirFile = FormatDir(Reordered(p))

\* C2 as stated: every ordering of the same tuples gives the same bytes, also
\* when tuples share an identifier, and the menu lines are in non-decreasing
\* order of identifier.
C2_OrderIndependent ==
    pc = "written" =>
        /\ MenuSorted
        /\ \A p \in Reorderings : generate_dir_file(Reordered(p)) = dirFile

\* C2, amended: the menu lines are in non-decreasing order of identifier, the
\* empty identifier first, and tuples of equal identifier keep the order of
\* the input; so two orderings of the same tuples give the same bytes when
\* they agree on the order of the tuples that share an identifier (always,
\* when no two tuples share one).
C2_SortedStable ==
    pc = "written" =>
        /\ MenuSorted
        /\ dirFile = FormatDir(Reordered(CHOOSE p \in Reorderings :
                                   NonDecreasing(Reordered(p)) /\ KeepsTies(p)))
        /\ \A p, q \in Reorderings :
              (\A i, j \in 1..Len(entries) :
                  DocIdOf(entries[i]) = DocIdOf(entries[j]) /\ i # j =>
                     LET pi == CHOOSE k \in 1..Len(entries) : p[k] = i
                         pj == CHOOSE k \in 1..Len(entries) : p[k] = j
                         qi == CHOOSE k \in 1..Len(entries) : q[k] = i
                         qj == CHOOSE k \in 1..Len(entries) : q[k] = j
                     IN  (pi < pj) <=> (qi < qj))
              => generate_dir_file(Reordered(p)) = generate_dir_file(Reordered(q))

\* three tuples given out of order, two of them without identifier
C2_Witness ==
    /\ pc = "written"
    /\ Len(entries) = 3
    /\ DocIdOf(entries[1]) = strRFC \o tNum
    /\ DocIdOf(entries[2]) = <<>>
    /\ DocIdOf(entries[3]) = <<>>
    /\ entries[2] # entries[3]
    /\ dirFile = FormatDir(<<entries[2], entries[3], entries[1]>>)

----------------------------------------------------------------------------
(* convert_file *)

ShownMax == 5   \* warnings[:5]

Min(a, b) == IF a < b THEN a ELSE b

\* lines 92-93: os.path.join(output_dir, basename + ext)
OutPath(filepath_, ext) == Path("script", Basename(filepath_) \o ext)

\* lines 169-175: the lines printed for n lines of compiler diagnostics
PrintedDiagnostics(n) == Min(n, ShownMax) + (IF n > ShownMax THEN 1 ELSE 0)

\* What the collaborators of one call can do.  stage: the xml2rfc part (lines
\* 107-156) raises, leaves xmlrfc.tree None, or writes the .texi from a tree.
\* compiler: makeinfo writes the .info, ends without writing it, or cannot be
\* started (subprocess.run raises).  stderr: its lines of diagnostics.
Outcome(stage, tree, compiler, stderr) ==
    [stage |-> stage, tree |-> tree, compiler |-> compiler, stderr |-> stderr]

Returned(filepath_, kind, value) ==
    [op |-> "return", path |-> filepath_, kind |-> kind, value |-> value]

\* convert_file(filepath, output_dir=script_dir) under outcome o: the files and
\* the log after the call, and what the call returned
convert_file(filepath_, o) ==
    LET info_path == OutPath(filepath_, dotInfo)
        texi_path == OutPath(filepath_, dotTexi)
        started   == Append(log, [op |-> "parse", path |-> filepath_, stage |-> o.stage])
        id        == ExtractDocId(o.tree, Basename(filepath_))
        fsTexi    == fs \cup {texi_path}
        fsInfo    == IF o.compiler = "wrote" THEN fsTexi \cup {info_path} ELSE fsTexi
        compiled  == Append(started, [op |-> "makeinfo", path |-> info_path,
                                      texi |-> texi_path,
                                      wrote |-> (o.compiler = "wrote"),
                                      stderr |-> o.stderr,
                                      printed |-> PrintedDiagnostics(o.stderr)])
        launched  == Append(started, [op |-> "makeinfo", path |-> info_path,
                                      texi |-> texi_path, wrote |-> FALSE,
                                      stderr |-> 0, printed |-> 0])
        result    == <<info_path.file, id, Strip(o.tree.title)>>
    IN  IF o.stage # "ok"
        THEN [fs |-> fs, log |-> Append(started, Returned(filepath_, "none", <<>>))]
        ELSE IF o.compiler = "raise"
        THEN [fs |-> fsTexi, log |-> Append(launched, Returned(filepath_, "raised", <<>>))]
        ELSE IF info_path \in fsInfo
        THEN [fs |-> fsInfo, log |-> Append(compiled, Returned(filepath_, "result", result))]
        ELSE [fs |-> fsInfo, log |-> Append(compiled, Returned(filepath_, "none", <<>>))]

\* what the call returned: the last event of its log
ReturnOf(r) == r.log[Len(r.log)]

fileA == kwRfc \o tNum \o dotXml
fileB == tDraft \o dotXml

treeRfc   == [number |-> tNum, docName |-> <<>>, seriesInfo |-> <<>>, title |-> <<" ", "T">>]
treeDraft == [number |-> <<>>, docName |-> tDraft, seriesInfo |-> <<>>, title |-> <<>>]

StderrCounts == 0..MaxWarn

ConvertOutcomes ==
    {Outcome(st, NoTree, "none", 0) : st \in {"raise", "notree"}}
    \cup {Outcome("ok", t, "raise", 0) : t \in {treeRfc, treeDraft}}
    \cup {Outcome("ok", t, c, n) : t \in {treeRfc, treeDraft}, c \in {"wrote", "nothing"},
                                   n \in StderrCounts}

InitConvert ==
    /\ pc = "convert_file"
    /\ filepath \in {Path("cwd", fileA), Path("xml", fileB)}
    /\ fs \in SUBSET {OutPath(Path("cwd", fileA), dotInfo), OutPath(Path("xml", fileB), dotInfo)}
    /\ log = <<>>
    /\ xmlrfc = NoTree /\ doc_id = <<>> /\ dirFile = <<>>
    /\ IdleConf /\ IdleMain

\* one call of convert_file
ConvertCall ==
    /\ pc = "convert_file"
    /\ \E o \in ConvertOutcomes :
         LET r == convert_file(filepath, o) IN
         /\ fs' = r.fs
         /\ log' = r.log
         /\ xmlrfc' = o.tree
         /\ doc_id' = IF o.stage = "ok" THEN ExtractDocId(o.tree, Basename(filepath)) ELSE <<>>
    /\ pc' = "converted"
    /\ UNCHANGED <<filepath, dirFile, confVars, mainVars>>

NextConvert == ConvertCall

SpecConvert == InitConvert /\ [][NextConvert]_vars

----------------------------------------------------------------------------
(* Claims about convert_file, under SpecConvert *)

\* the events of the one call made
CallEvent(op) == CHOOSE e \in {log[k] : k \in 1..Len(log)} : e.op = op
CallHas(op) == \E k \in 1..Len(log) : log[k].op = op

\* C10: a result is produced if and only if the xml2rfc stage neither raised
\* nor came back without a tree, the compiler was then invoked, and the output
\* file exists after it ran; if the stage fails the compiler is not invoked
\* and there is no result; at most 5 lines of diagnostics are printed, plus a
\* count of the rest; and a conversion whose compiler run did not produce the
\* output yields no result, also when a file of that name is left from an
\* earlier run.
C10_ResultOnlyOnSuccess ==
    pc = "converted" =>
        LET produced == CallEvent("return").kind = "result"
            stageOk  == CallEvent("parse").stage = "ok"
        IN  /\ produced <=> (stageOk /\ CallHas("makeinfo")
                               /\ CallEvent("return").kind # "raised"
                               /\ OutPath(filepath, dotInfo) \in fs)
            /\ ~stageOk => (~CallHas("makeinfo") /\ ~produced)
            /\ CallHas("makeinfo") =>
                  /\ CallEvent("makeinfo").printed <= ShownMax + 1
                  /\ CallEvent("makeinfo").printed =
                        IF CallEvent("makeinfo").stderr <= ShownMax
                        THEN CallEvent("makeinfo").stderr ELSE ShownMax + 1
            /\ produced => CallEvent("makeinfo").wrote

\* C10 without its last sentence, which is what the code does
C10_ExistenceDecides ==
    pc = "converted" =>
        LET produced == CallEvent("return").kind = "result"
            stageOk  == CallEvent("parse").stage = "ok"
        IN  /\ produced <=> (stageOk /\ CallHas("makeinfo")
                               /\ CallEvent("return").kind # "raised"
                               /\ OutPath(filepath, dotInfo) \in fs)
            /\ ~stageOk => (~CallHas("makeinfo") /\ ~produced)

----------------------------------------------------------------------------
(* main *)

optSync == <<"-", "-", "s", "y", "n", "c">>
optHelp == <<"-", "-", "h", "e", "l", "p">>

ConfPath == Path("script", <<"specs.conf">>)
XmlDir   == Path("script", <<"xml">>)
DirPath  == Path("script", <<"dir">>)

\* os.path.abspath(f) of a file name given on the command line
AbsPath(f) == Path("cwd", f)

\* line 220 negated: no argument, or --sync first
SyncMode == IF argv = <<>> THEN TRUE ELSE argv[1] = optSync
HelpMode == IF argv = <<>> THEN FALSE ELSE argv[1] = optHelp

lineRfc   == Render(Layout(none, <<kwRfc, tNum>>, sp, none, none))
lineDraft == Render(Layout(sp, <<kwDraft, tDraft>>, tab, none, cmt))
lineBogus == Render(Layout(none, <<tBogus, tFoo>>, sp, none, none))

\* the command lines and the config files main is run on
Argvs == UNION { [1..n -> {optSync, optHelp, fileA, fileB}] : n \in 0..MaxArgs }

MainConfFiles == {
    <<>>,
    <<lineBogus>>,
    <<lineRfc>>,
    <<lineDraft, lineRfc>>,
    <<lineRfc, lineBogus, lineDraft>>,
    <<lineRfc, lineRfc>>
}

\* the calls of convert_file main's runs make: one of each kind of return
MainOutcomes == {
    Outcome("raise", NoTree, "none", 0),
    Outcome("ok", treeRfc, "wrote", 0),
    Outcome("ok", treeDraft, "nothing", MaxWarn),
    Outcome("ok", treeDraft, "raise", 0)
}

\* the disk before the run: with or without specs.conf, a cached rfc91.xml, an
\* rfc91.info of an earlier run
InitMain ==
    /\ pc = "main"
    /\ argv \in Argvs
    /\ \/ /\ SyncMode
          /\ \E conf \in BOOLEAN, cache \in SUBSET {XmlDir, XmlPath(kwRfc \o tNum)},
                old \in SUBSET {OutPath(AbsPath(fileA), dotInfo)} :
               /\ XmlPath(kwRfc \o tNum) \in cache => XmlDir \in cache
               /\ fs = (IF conf THEN {ConfPath} ELSE {}) \cup cache \cup old
               /\ confFile \in (IF conf THEN MainConfFiles ELSE {<<>>})
       \/ /\ ~SyncMode
          /\ fs \in SUBSET {OutPath(AbsPath(fileA), dotInfo)}
          /\ confFile = <<>>
    /\ lineNo = 1 /\ specs = <<>> /\ warnings = <<>>
    /\ files = <<>> /\ entries = <<>> /\ idx = 1 /\ exitCode = -1
    /\ log = <<>> /\ dirFile = <<>>
    /\ IdleId

\* lines 215-217
MainHelp ==
    /\ pc = "main"
    /\ HelpMode
    /\ log' = Append(log, [op |-> "help"])
    /\ exitCode' = 0
    /\ pc' = "exit"
    /\ UNCHANGED <<fs, dirFile, argv, files, entries, idx, confVars, idVars>>

\* lines 220-222, then 248 (never taken here) and 253-260
MainDirect ==
    /\ pc = "main"
    /\ ~HelpMode /\ ~SyncMode
    /\ files' = [i \in 1..Len(argv) |-> AbsPath(argv[i])]
    /\ entries' = <<>>
    /\ idx' = 1
    /\ pc' = "convert"
    /\ UNCHANGED <<fs, log, dirFile, argv, exitCode, confVars, idVars>>

\* lines 225-229
MainNoConf ==
    /\ pc = "main"
    /\ SyncMode
    /\ ConfPath \notin fs
    /\ exitCode' = 1
    /\ pc' = "exit"
    /\ UNCHANGED <<fs, log, dirFile, argv, files, entries, idx, confVars, idVars>>

\* lines 231-239
MainReadConf ==
    /\ pc = "main"
    /\ SyncMode
    /\ ConfPath \in fs
    /\ LET parsed == parse_specs_conf(confFile) IN
       /\ specs' = parsed
       /\ IF parsed = <<>>
          THEN /\ exitCode' = 1
               /\ pc' = "exit"
               /\ UNCHANGED <<fs, log>>
          ELSE /\ fs' = fs \cup {XmlDir}
               /\ log' = Append(log, [op |-> "makedirs", path |-> XmlDir])
               /\ pc' = "fetch"
               /\ UNCHANGED exitCode
    /\ files' = <<>>
    /\ idx' = 1
    /\ UNCHANGED <<dirFile, argv, entries, confFile, lineNo, warnings, idVars>>

\* FetchStep without the try/except of lines 242-246
FetchStep_Unguarded ==
    /\ pc = "fetch"
    /\ idx <= Len(specs)
    /\ \E outcome \in TransferOutcomes :
         LET output_path == XmlPath(specs[idx][2])
             r == fetch_xml(specs[idx][1], output_path, outcome)
         IN  /\ fs' = r.fs
             /\ log' = r.log
             /\ files' = IF r.raised THEN files ELSE Append(files, output_path)
             /\ pc' = IF r.raised THEN "exit" ELSE "fetch"
             /\ exitCode' = IF r.raised THEN 1 ELSE exitCode
    /\ idx' = idx + 1
    /\ UNCHANGED <<dirFile, argv, entries, confVars, idVars>>

\* lines 240-246: one pass of `for url, name in specs`
FetchStep ==
    /\ pc = "fetch"
    /\ idx <= Len(specs)
    /\ \E outcome \in TransferOutcomes :
         LET output_path == XmlPath(specs[idx][2])
             r == fetch_xml(specs[idx][1], output_path, outcome)
         IN  /\ fs' = r.fs
             /\ log' = r.log
             /\ files' = IF r.raised THEN files ELSE Append(files, output_path)
    /\ idx' = idx + 1
    /\ UNCHANGED <<pc, dirFile, argv, entries, exitCode, confVars, idVars>>

\* the loop's end, then lines 248-250 and 253-260
FetchDone ==
    /\ pc = "fetch"
    /\ idx > Len(specs)
    /\ IF files = <<>>
       THEN exitCode' = 1 /\ pc' = "exit"
       ELSE exitCode' = exitCode /\ pc' = "convert"
    /\ idx' = 1
    /\ entries' = <<>>
    /\ UNCHANGED <<fs, log, dirFile, argv, files, confVars, idVars>>

\* ConvertStep without the try/except of lines 262-268: an exception ends the
\* loop
ConvertStep_Unguarded ==
    /\ pc = "convert"
    /\ idx <= Len(files)
    /\ \E o \in MainOutcomes :
         LET r == convert_file(files[idx], o) IN
         /\ fs' = r.fs
         /\ log' = r.log
         /\ entries' = IF ReturnOf(r).kind = "result"
                       THEN Append(entries, ReturnOf(r).value) ELSE entries
         /\ idx' = IF ReturnOf(r).kind = "raised" THEN Len(files) + 1 ELSE idx + 1
    /\ UNCHANGED <<pc, dirFile, argv, files, exitCode, confVars, idVars>>

\* lines 261-268: one pass of `for f in files`
ConvertStep ==
    /\ pc = "convert"
    /\ idx <= Len(files)
    /\ \E o \in MainOutcomes :
         LET r == convert_file(files[idx], o) IN
         /\ fs' = r.fs
         /\ log' = r.log
         /\ entries' = IF ReturnOf(r).kind = "result"
                       THEN Append(entries, ReturnOf(r).value) ELSE entries
    /\ idx' = idx + 1
    /\ UNCHANGED <<pc, dirFile, argv, files, exitCode, confVars, idVars>>

Summary == [op |-> "summary", succeeded |-> Len(entries), total |-> Len(files)]

\* MainFinish with a nonzero status when nothing was converted
MainFinish_FailsOnNone ==
    /\ pc = "convert"
    /\ idx > Len(files)
    /\ IF entries # <<>>
       THEN /\ dirFile' = generate_dir_file(entries)
            /\ fs' = fs \cup {DirPath}
            /\ log' = Append(Append(log, [op |-> "write_dir", path |-> DirPath]), Summary)
       ELSE /\ log' = Append(log, Summary)
            /\ UNCHANGED <<dirFile, fs>>
    /\ exitCode' = IF entries = <<>> THEN 1 ELSE 0
    /\ pc' = "exit"
    /\ UNCHANGED <<argv, files, entries, idx, confVars, idVars>>

\* the loop's end, then lines 270-273 and the return of main
MainFinish ==
    /\ pc = "convert"
    /\ idx > Len(files)
    /\ IF entries # <<>>
       THEN /\ dirFile' = generate_dir_file(entries)
            /\ fs' = fs \cup {DirPath}
            /\ log' = Append(Append(log, [op |-> "write_dir", path |-> DirPath]), Summary)
       ELSE /\ log' = Append(log, Summary)
            /\ UNCHANGED <<dirFile, fs>>
    /\ exitCode' = 0
    /\ pc' = "exit"
    /\ UNCHANGED <<argv, files, entries, idx, confVars, idVars>>

NextMain ==
    \/ MainHelp
    \/ MainDirect
    \/ MainNoConf
    \/ MainReadConf
    \/ FetchStep
    \/ FetchDone
    \/ ConvertStep
    \/ MainFinish

SpecMain == InitMain /\ [][NextMain]_vars

----------------------------------------------------------------------------
(* Claims about main, under SpecMain *)

IsFetch(e) == e.op \in {"cached", "transfer"}
IsReturn(e) == e.op = "return"
IsResult(e) == e.kind = "result"

\* a call of fetch_xml that raised
FetchRaised(e) == e.op = "transfer" /\ e.outcome # "ok"
FetchCameBack(e) == ~FetchRaised(e)

Fetches == SelectSeq(log, IsFetch)
Returns == SelectSeq(log, IsReturn)

PositionsOf(op) == {k \in 1..Len(log) : log[k].op = op}

\* C5: the fetch loop attempts every entry, in config order, whatever entries
\* raise; `files` holds exactly the paths of the entries whose fetch did not
\* raise, in config order; and only those paths are converted.
C5_FetchIsolated ==
    (SyncMode /\ pc \in {"fetch", "convert", "exit"} /\ specs # <<>>) =>
        LET n == IF pc = "fetch" THEN idx - 1 ELSE Len(specs)
            kept == SelectSeq(Fetches, FetchCameBack)
        IN  /\ Len(Fetches) = n
            /\ \A k \in 1..n :
                  /\ Fetches[k].url = specs[k][1]
                  /\ Fetches[k].path = Path("xml", specs[k][2] \o dotXml)
            /\ files = [k \in 1..Len(kept) |-> kept[k].path]
            /\ \A k \in PositionsOf("parse") :
                  \E j \in 1..Len(kept) : kept[j].path = log[k].path

\* two entries, the first fetch raising: the second fetched and converted
C5_Witness ==
    /\ pc = "exit"
    /\ Len(specs) = 2
    /\ Len(Fetches) = 2
    /\ FetchRaised(Fetches[1])
    /\ Fetches[2].op = "transfer" /\ ~FetchRaised(Fetches[2])
    /\ Fetches[1].path # Fetches[2].path
    /\ files = <<XmlPath(specs[2][2])>>
    /\ Len(Returns) = 1

NoEntries == \A i \in 1..Len(confFile) : ~WellFormed(ReadingOf(confFile[i]))
EveryFetchRaised == Fetches # <<>> /\ \A k \in 1..Len(Fetches) : FetchRaised(Fetches[k])

\* C6: apart from --help, the exit status is nonzero exactly in sync mode with
\* specs.conf missing or with an empty file list (no entry in the config, or
\* every fetch raised); with specs.conf missing nothing is created, fetched,
\* converted or written; every other run goes on to the summary and exits 0
\* (no state before the exit is one the run can stop in: some step of main is
\* enabled there).
C6_ExitStatus ==
    /\ (pc = "exit" /\ ~HelpMode) =>
            /\ exitCode \in {0, 1}
            /\ exitCode = 1 <=> (SyncMode /\ (ConfPath \notin fs \/ files = <<>>))
            /\ (SyncMode /\ ConfPath \in fs) => (files = <<>> <=> (NoEntries \/ EveryFetchRaised))
            /\ (SyncMode /\ ConfPath \notin fs) =>
                  /\ log = <<>> /\ dirFile = <<>> /\ specs = <<>> /\ files = <<>>
                  /\ fs \subseteq {XmlDir, XmlPath(kwRfc \o tNum), OutPath(AbsPath(fileA), dotInfo)}
            /\ exitCode = 0 =>
                  log[Len(log)] = [op |-> "summary", succeeded |-> Len(entries),
                                   total |-> Len(files)]
    /\ pc # "exit" =>
            /\ exitCode = -1
            /\ pc \in {"main", "fetch", "convert"}
            /\ pc = "main" =>
                  (ENABLED (MainHelp \/ MainDirect \/ MainNoConf) \/ (SyncMode /\ ConfPath \in fs))
            /\ pc = "fetch" => ENABLED (FetchStep \/ FetchDone)
            /\ pc = "convert" => (ENABLED ConvertStep \/ idx > Len(files))

\* a sync run whose two conversions both fail: summary 0/2, exit status 0
C6_Witness ==
    /\ pc = "exit"
    /\ SyncMode
    /\ exitCode = 0
    /\ Len(files) = 2
    /\ entries = <<>>
    /\ log[Len(log)] = [op |-> "summary", succeeded |-> 0, total |-> 2]

\* C7: every file is attempted, in input order; `entries` holds exactly the
\* results of the conversions that returned one, in input order; the dir file
\* is written if and only if there is an entry, and after the last attempt;
\* the summary reports len(entries)/len(files).
C7_ConvertLoop ==
    (pc = "convert" \/ (pc = "exit" /\ exitCode = 0 /\ ~HelpMode)) =>
        LET n == IF pc = "convert" THEN idx - 1 ELSE Len(files)
            good == SelectSeq(Returns, IsResult)
        IN  /\ Len(Returns) = n
            /\ \A k \in 1..n : Returns[k].path = files[k]
            /\ entries = [k \in 1..Len(good) |-> good[k].value]
            /\ pc = "convert" => (PositionsOf("write_dir") = {} /\ dirFile = <<>>)
            /\ pc = "exit" =>
                  /\ PositionsOf("write_dir") # {} <=> entries # <<>>
                  /\ Cardinality(PositionsOf("write_dir")) <= 1
                  /\ \A w \in PositionsOf("write_dir") :
                        \A k \in PositionsOf("parse") \cup PositionsOf("makeinfo")
                                 \cup PositionsOf("return") : k < w
                  /\ dirFile = IF entries # <<>> THEN generate_dir_file(entries) ELSE <<>>
                  /\ DirPath \in fs <=> entries # <<>>
                  /\ log[Len(log)] = [op |-> "summary", succeeded |-> Len(entries),
                                      total |-> Len(files)]

\* one file given on the command line, which fails to parse: no entry, no dir
\* file, summary 0/1
C7_Witness ==
    /\ pc = "exit"
    /\ argv = <<fileA>>
    /\ Len(Returns) = 1
    /\ Returns[1].kind = "none"
    /\ log[1] = [op |-> "parse", path |-> AbsPath(fileA), stage |-> "raise"]
    /\ entries = <<>>
    /\ dirFile = <<>>
    /\ PositionsOf("write_dir") = {}
    /\ log[Len(log)] = [op |-> "summary", succeeded |-> 0, total |-> 1]

====
